---- MODULE Spec2Model ----
(***************************************************************************)
(* A model of src/main.py: the image-to-ASCII converter                    *)
(* (convert_image_to_ascii) and the build / playback loop of main().       *)
(*                                                                         *)
(* Strings are sequences of one-character strings.  Two specifications     *)
(* share the module: SpecConvert runs one call of convert_image_to_ascii,  *)
(* statement by statement, over bounded arguments; Spec runs main().       *)
(***************************************************************************)
EXTENDS Integers, Sequences, FiniteSets, TLC

\* ---------------------------------------------------------------- bounds
MaxSrcW == 2      \* source image widths 1..MaxSrcW
MaxSrcH == 4      \* source image heights 1..MaxSrcH
MaxW == 3         \* requested widths (0 - NegSpan)..MaxW
MaxH == 2         \* height limits (0 - NegSpan)..MaxH
NegSpan == 2      \* how far below zero widths and height limits start
MaxRamp == 3      \* ramps: the prefixes of charset up to MaxRamp, and charset
MaxFrames == 2    \* frames the decoder extracts, 0..MaxFrames
MaxLine == 3      \* length of a line typed at the prompt
MaxRepeat == 3    \* lines asking for more repeats than this are not drawn

\* ------------------------------------------------------ program constants
\* main.py:143  charset = r"@%#*+=-:. "
charset == <<"@", "%", "#", "*", "+", "=", "-", ":", ".", " ">>

\* ------------------------------------------------------------------ state
VARIABLES
    \* one call of convert_image_to_ascii
    cpc,                  \* position in the function
    file_kind,            \* what the file at filepath holds
    file_size,            \* <<width, height>> of the image in that file
    characters,           \* the ramp argument
    terminal_max_height,  \* the height-limit argument
    original_width, original_height,
    target_width,         \* the parameter, decremented by the fit loop
    new_height,
    pixel_values,         \* the resized greyscale grid
    ascii_art,            \* the returned list of rows
    conv_result,          \* "pending", "art", "None" or "raised"
    \* main()
    pc,                   \* position of main
    ascii_width,          \* terminal columns - 5: the target_width passed
    ascii_height_limit,   \* terminal lines - 5: the terminal_max_height passed
    image_paths,          \* the extracted frame files, by what each holds
    i,                    \* index of the frame being converted (1-based)
    all_ascii_frames,     \* the cache: frames by their index in image_paths
    line,                 \* the raw text typed at the prompt
    user_input,           \* line.strip().lower()
    times_to_repeat,
    rep,                  \* completed passes of the outer for loop
    frame_pos,            \* next position in all_ascii_frames
    nrenders,             \* print_ascii_art calls completed for this input
    last_rendered,        \* the frame of the last completed call (0: none)
    last_log              \* the last message of the animation loop

convVars == <<cpc, file_kind, file_size, characters, terminal_max_height,
              original_width, original_height, target_width, new_height,
              pixel_values, ascii_art, conv_result>>
mainVars == <<pc, ascii_width, ascii_height_limit, image_paths, i, all_ascii_frames, line, user_input,
              times_to_repeat, rep, frame_pos, nrenders, last_rendered, last_log>>
vars == <<convVars, mainVars>>

\* ------------------------------------------------- convert_image_to_ascii
\* What a frame file can hold: a readable image, a file Image.open rejects,
\* or a file whose header opens (Image.open is lazy) and whose pixel data
\* fails to load when resize() first reads it.
FileKinds == {"ok", "unopenable", "truncated"}

\* main.py:28-32  Image.open raises and the function returns None
OpenFails(kind) == kind = "unopenable"

\* Python's int() of a quotient num/den, den > 0: truncation toward zero
Trunc(num, den) == IF num >= 0 THEN num \div den ELSE 0 - ((0 - num) \div den)

\* main.py:36-37,40  int(ar * target_width * 0.5), ar = height / width.
\* Exact rational arithmetic; the float evaluation agrees on these bounds.
CandidateHeight(ow, oh, tw) == Trunc(oh * tw, 2 * ow)

LoopCond_slack(h, limit) == h > limit + 1
\* main.py:38  while new_height > terminal_max_height
LoopCond(h, limit) == h > limit

ClampHeight_none(h) == h
\* main.py:44-48  a height <= 0 becomes 1
ClampHeight(h) == IF h <= 0 THEN 1 ELSE h

ResizeRaises_unguarded(kind, tw, h) == kind = "truncated"
\* main.py:52  img.resize((target_width, new_height)) raises when the pixel
\* data cannot be loaded, and (Pillow: "height and width must be > 0") when
\* either requested dimension is below 1.  Nothing in the function catches it.
ResizeRaises(kind, tw, h) == kind = "truncated" \/ tw < 1 \/ h < 1

\* Luminances a resized frame is drawn from: the two ends of the range and
\* the samples around the first step of the ten-character ramp.
LumSamples == {0, 28, 29, 254, 255}
Slopes == {0, 1}
\* main.py:52-56  the h-by-w greyscale array of the resized frame: solid
\* frames and frames whose luminance climbs by one per sample (mod 256).
PixelGrids(w, h) ==
    { [r \in 1..h |-> [c \in 1..w |-> (p0 + k * ((r - 1) * w + (c - 1))) % 256]]
        : p0 \in LumSamples, k \in Slopes }

ScaledPixel_round(p, n) == (p * (n - 1) + 127) \div 255
\* main.py:59  (pixel_values / 255 * (num_chars - 1)).astype(int)
\* Exact integer arithmetic; the float expression truncates to the same
\* index for every ramp of at most 51 characters.
ScaledPixel(p, n) == (p * (n - 1)) \div 255

\* main.py:62  characters[pixel]  (Python indexes from 0)
CharFor(chars, p) == chars[ScaledPixel(p, Len(chars)) + 1]

\* main.py:62  one joined row per row of the array
AsciiArt(chars, pixels) ==
    [r \in DOMAIN pixels |-> [c \in DOMAIN pixels[r] |-> CharFor(chars, pixels[r][c])]]

Ramps == {SubSeq(charset, 1, n) : n \in 1..MaxRamp} \cup {charset}

\* main.py:28-37  open the file, read its size, compute the first candidate
ConvOpen ==
    /\ cpc = "open"
    /\ IF OpenFails(file_kind)
         THEN /\ conv_result' = "None"
              /\ cpc' = "done"
              /\ UNCHANGED <<original_width, original_height, new_height>>
         ELSE /\ original_width' = file_size[1]
              /\ original_height' = file_size[2]
              /\ new_height' = CandidateHeight(file_size[1], file_size[2], target_width)
              /\ cpc' = "fit"
              /\ UNCHANGED conv_result
    /\ UNCHANGED <<file_kind, file_size, characters, terminal_max_height,
                   target_width, pixel_values, ascii_art>>
    /\ UNCHANGED mainVars

\* main.py:38-40  one iteration of the aspect-fit loop
ConvFit ==
    /\ cpc = "fit"
    /\ LoopCond(new_height, terminal_max_height)
    /\ target_width' = target_width - 1
    /\ new_height' = CandidateHeight(original_width, original_height, target_width - 1)
    /\ UNCHANGED <<cpc, file_kind, file_size, characters, terminal_max_height,
                   original_width, original_height, pixel_values, ascii_art,
                   conv_result>>
    /\ UNCHANGED mainVars

\* main.py:38,44-48  the loop exits and the height is clamped
ConvClamp ==
    /\ cpc = "fit"
    /\ ~LoopCond(new_height, terminal_max_height)
    /\ new_height' = ClampHeight(new_height)
    /\ cpc' = "resize"
    /\ UNCHANGED <<file_kind, file_size, characters, terminal_max_height,
                   original_width, original_height, target_width,
                   pixel_values, ascii_art, conv_result>>
    /\ UNCHANGED mainVars

\* main.py:52-56  resize, convert to greyscale, read the array
ConvResize ==
    /\ cpc = "resize"
    /\ IF ResizeRaises(file_kind, target_width, new_height)
         THEN /\ conv_result' = "raised"
              /\ cpc' = "done"
              /\ UNCHANGED pixel_values
         ELSE /\ pixel_values' \in PixelGrids(target_width, new_height)
              /\ cpc' = "quantize"
              /\ UNCHANGED conv_result
    /\ UNCHANGED <<file_kind, file_size, characters, terminal_max_height,
                   original_width, original_height, target_width, new_height,
                   ascii_art>>
    /\ UNCHANGED mainVars

\* main.py:57-63  map every sample to a ramp character and return the rows
ConvQuantize ==
    /\ cpc = "quantize"
    /\ ascii_art' = AsciiArt(characters, pixel_values)
    /\ conv_result' = "art"
    /\ cpc' = "done"
    /\ UNCHANGED <<file_kind, file_size, characters, terminal_max_height,
                   original_width, original_height, target_width, new_height,
                   pixel_values>>
    /\ UNCHANGED mainVars

\* main() as the caller of a single call: it holds the two arguments it
\* passed, and these variables do not move under SpecConvert
MainIdle ==
    /\ pc = "Idle"
    /\ ascii_height_limit = terminal_max_height
    /\ image_paths = <<>>
    /\ i = 1
    /\ all_ascii_frames = <<>>
    /\ line = <<>>
    /\ user_input = <<>>
    /\ times_to_repeat = 1
    /\ rep = 0
    /\ frame_pos = 1
    /\ nrenders = 0
    /\ last_rendered = 0
    /\ last_log = "none"

\* main.py:9-14  a call of convert_image_to_ascii on bounded arguments
InitConvert ==
    /\ cpc = "open"
    /\ file_kind \in FileKinds
    /\ characters \in Ramps
    /\ file_size \in (1..MaxSrcW) \X (1..MaxSrcH)
    /\ ascii_width \in (0 - NegSpan)..MaxW
    /\ target_width = ascii_width
    /\ terminal_max_height \in (0 - NegSpan)..MaxH
    /\ original_width = 0
    /\ original_height = 0
    /\ new_height = 0
    /\ pixel_values = <<>>
    /\ ascii_art = <<>>
    /\ conv_result = "pending"
    /\ MainIdle

NextConvert == ConvOpen \/ ConvFit \/ ConvClamp \/ ConvResize \/ ConvQuantize

SpecConvert == InitConvert /\ [][NextConvert]_vars

\* The function is straight-line sequential code: a statement that can run, runs.
SpecConvertLive == SpecConvert /\ WF_vars(NextConvert)

\* ------------------------------------------------------------------ main()
\* Locals of convert_image_to_ascii outside a call
ConvIdle ==
    /\ cpc = "idle"
    /\ file_kind = "none"
    /\ file_size = <<0, 0>>
    /\ characters = <<>>
    /\ terminal_max_height = 0
    /\ original_width = 0
    /\ original_height = 0
    /\ target_width = 0
    /\ new_height = 0
    /\ pixel_values = <<>>
    /\ ascii_art = <<>>
    /\ conv_result = "pending"

\* main.py:63,164  the call is over and its locals are gone
ConvDiscard ==
    /\ cpc' = "idle"
    /\ file_kind' = "none"
    /\ file_size' = <<0, 0>>
    /\ characters' = <<>>
    /\ terminal_max_height' = 0
    /\ original_width' = 0
    /\ original_height' = 0
    /\ target_width' = 0
    /\ new_height' = 0
    /\ pixel_values' = <<>>
    /\ ascii_art' = <<>>
    /\ conv_result' = "pending"

\* main.py:148  shutil.get_terminal_size: <<columns, lines>>; the fallback
\* size, a terminal of five columns and a terminal of four lines.
TerminalSizes == {<<80, 20>>, <<5, 20>>, <<80, 4>>}

\* Sizes of the source animation; every frame of one GIF has the same size.
GifSizes == {<<1, 4>>, <<2, 1>>}

RECURSIVE SeqsUpTo(_, _)
\* The sequences over S of length at most n
SeqsUpTo(S, n) ==
    IF n = 0 THEN {<<>>}
    ELSE LET shorter == SeqsUpTo(S, n - 1)
         IN  shorter \cup {Append(q, x) : q \in {t \in shorter : Len(t) = n - 1}, x \in S}

\* Characters a typed line is made of
Chars == {" ", "q", "Q", "0", "3"}
Whitespace == {" "}
Digits == {"0", "3"}
DigitVal(c) == CASE c = "0" -> 0 [] c = "3" -> 3

RECURSIVE LStrip(_)
LStrip(s) == IF s # <<>> /\ Head(s) \in Whitespace THEN LStrip(Tail(s)) ELSE s
RECURSIVE RStrip(_)
RStrip(s) ==
    IF s # <<>> /\ s[Len(s)] \in Whitespace THEN RStrip(SubSeq(s, 1, Len(s) - 1)) ELSE s

Strip_none(s) == s
\* main.py:185  str.strip()
Strip(s) == RStrip(LStrip(s))

\* main.py:185  str.lower()
Lower(s) == [k \in DOMAIN s |-> IF s[k] = "Q" THEN "q" ELSE s[k]]

RECURSIVE SkipToDigit(_)
SkipToDigit(s) == IF s # <<>> /\ Head(s) \notin Digits THEN SkipToDigit(Tail(s)) ELSE s
RECURSIVE TakeDigits(_)
TakeDigits(s) ==
    IF s # <<>> /\ Head(s) \in Digits THEN <<Head(s)>> \o TakeDigits(Tail(s)) ELSE <<>>

\* main.py:190  re.search(r"(\d+)", user_input): the leftmost, longest run
\* of digits; <<>> when there is no match
ReSearchDigits(s) == TakeDigits(SkipToDigit(s))

RECURSIVE IntOf(_)
\* main.py:192  int() of a string of digits
IntOf(ds) ==
    IF ds = <<>> THEN 0
    ELSE 10 * IntOf(SubSeq(ds, 1, Len(ds) - 1)) + DigitVal(ds[Len(ds)])

RepeatCount_default0(s) ==
    LET match == ReSearchDigits(s) IN IF match # <<>> THEN IntOf(match) ELSE 0
RepeatCount_firstDigit(s) ==
    LET match == ReSearchDigits(s) IN IF match # <<>> THEN DigitVal(match[1]) ELSE 1
\* main.py:189-192  times_to_repeat
RepeatCount(s) ==
    LET match == ReSearchDigits(s) IN IF match # <<>> THEN IntOf(match) ELSE 1

\* Lines typed at the prompt, up to the repeat counts the model plays out
InputLines ==
    {l \in SeqsUpTo(Chars, MaxLine) : RepeatCount(Lower(Strip(l))) <= MaxRepeat}

OnKeyboardInterrupt_continue == "AwaitingInput"
\* main.py:200-202  except KeyboardInterrupt: print, break
OnKeyboardInterrupt == "Stopped"

OnException_continue == "AwaitingInput"
\* main.py:203-205  except Exception: log, break
OnException == "Stopped"

\* main.py:140-151  main starts and reads the terminal size
Init ==
    /\ pc = "Extracting"
    /\ \E size \in TerminalSizes :
          /\ ascii_width = size[1] - 5
          /\ ascii_height_limit = size[2] - 5
    /\ image_paths = <<>>
    /\ i = 1
    /\ all_ascii_frames = <<>>
    /\ line = <<>>
    /\ user_input = <<>>
    /\ times_to_repeat = 1
    /\ rep = 0
    /\ frame_pos = 1
    /\ nrenders = 0
    /\ last_rendered = 0
    /\ last_log = "none"
    /\ ConvIdle

\* main.py:153-161  the decoder lists the frame files; none: main returns
Extract ==
    /\ pc = "Extracting"
    /\ \E size \in GifSizes : \E kinds \in SeqsUpTo(FileKinds, MaxFrames) :
          image_paths' = [k \in DOMAIN kinds |-> [kind |-> kinds[k], size |-> size]]
    /\ pc' = IF image_paths' = <<>> THEN "Exited" ELSE "Building"
    /\ UNCHANGED <<ascii_width, ascii_height_limit, i, all_ascii_frames, line,
                   user_input, times_to_repeat, rep, frame_pos, nrenders,
                   last_rendered, last_log>>
    /\ UNCHANGED convVars

\* main.py:162-169  the build loop calls the converter on the next frame
CallConvert ==
    /\ pc = "Building"
    /\ cpc = "idle"
    /\ i <= Len(image_paths)
    /\ cpc' = "open"
    /\ file_kind' = image_paths[i].kind
    /\ file_size' = image_paths[i].size
    /\ characters' = charset
    /\ target_width' = ascii_width
    /\ terminal_max_height' = ascii_height_limit
    /\ UNCHANGED <<original_width, original_height, new_height, pixel_values,
                   ascii_art, conv_result>>
    /\ UNCHANGED mainVars

\* main.py:164,170-173  the call ends: a frame is appended, a None (or an
\* empty frame) is skipped with a warning, and an exception the converter
\* raised leaves the loop and main (no try encloses the build loop).
ReturnConvert ==
    /\ pc = "Building"
    /\ cpc = "done"
    /\ IF conv_result = "raised"
         THEN /\ pc' = "Escaped"
              /\ UNCHANGED <<i, all_ascii_frames>>
         ELSE /\ all_ascii_frames' =
                    IF conv_result = "art" /\ ascii_art # <<>>
                      THEN Append(all_ascii_frames, i)
                      ELSE all_ascii_frames
              /\ i' = i + 1
              /\ UNCHANGED pc
    /\ ConvDiscard
    /\ UNCHANGED <<ascii_width, ascii_height_limit, image_paths, line, user_input,
                   times_to_repeat, rep, frame_pos, nrenders, last_rendered,
                   last_log>>

\* main.py:175-181  every frame was tried; an empty cache ends main
BuildDone ==
    /\ pc = "Building"
    /\ cpc = "idle"
    /\ i > Len(image_paths)
    /\ pc' = IF all_ascii_frames = <<>> THEN "Exited" ELSE "AwaitingInput"
    /\ UNCHANGED <<ascii_width, ascii_height_limit, image_paths, i,
                   all_ascii_frames, line, user_input, times_to_repeat, rep,
                   frame_pos, nrenders, last_rendered, last_log>>
    /\ UNCHANGED convVars

\* main.py:185-194  a line is read: "q" leaves the loop, anything else sets
\* the repeat count and enters the playback loops
ReadInput ==
    /\ pc = "AwaitingInput"
    /\ \E l \in InputLines :
          /\ line' = l
          /\ user_input' = Lower(Strip(l))
    /\ IF user_input' = <<"q">>
         THEN /\ pc' = "Stopped"
              /\ UNCHANGED times_to_repeat
         ELSE /\ pc' = "Playing"
              /\ times_to_repeat' = RepeatCount(user_input')
    /\ rep' = 0
    /\ frame_pos' = 1
    /\ nrenders' = 0
    /\ last_rendered' = 0
    /\ UNCHANGED <<ascii_width, ascii_height_limit, image_paths, i,
                   all_ascii_frames, last_log>>
    /\ UNCHANGED convVars

\* main.py:185,203-205  input() raises (end of input)
InputFails ==
    /\ pc = "AwaitingInput"
    /\ pc' = OnException
    /\ last_log' = "error"
    /\ UNCHANGED <<ascii_width, ascii_height_limit, image_paths, i,
                   all_ascii_frames, line, user_input, times_to_repeat, rep,
                   frame_pos, nrenders, last_rendered>>
    /\ UNCHANGED convVars

\* main.py:194-199  one frame is printed, followed by the 40 ms sleep
RenderFrame ==
    /\ pc = "Playing"
    /\ rep < times_to_repeat
    /\ nrenders' = nrenders + 1
    /\ last_rendered' = all_ascii_frames[frame_pos]
    /\ IF frame_pos = Len(all_ascii_frames)
         THEN rep' = rep + 1 /\ frame_pos' = 1
         ELSE frame_pos' = frame_pos + 1 /\ UNCHANGED rep
    /\ UNCHANGED <<pc, ascii_width, ascii_height_limit, image_paths, i,
                   all_ascii_frames, line, user_input, times_to_repeat, last_log>>
    /\ UNCHANGED convVars

\* main.py:196,203-205  print_ascii_art raises: logged, the loop is left
RenderFails ==
    /\ pc = "Playing"
    /\ rep < times_to_repeat
    /\ pc' = OnException
    /\ last_log' = "error"
    /\ UNCHANGED <<ascii_width, ascii_height_limit, image_paths, i,
                   all_ascii_frames, line, user_input, times_to_repeat, rep,
                   frame_pos, nrenders, last_rendered>>
    /\ UNCHANGED convVars

\* main.py:184-202  KeyboardInterrupt inside the try, at the prompt or
\* between two frames of the playback
Interrupt ==
    /\ pc \in {"AwaitingInput", "Playing"}
    /\ pc' = OnKeyboardInterrupt
    /\ last_log' = "interrupted"
    /\ UNCHANGED <<ascii_width, ascii_height_limit, image_paths, i,
                   all_ascii_frames, line, user_input, times_to_repeat, rep,
                   frame_pos, nrenders, last_rendered>>
    /\ UNCHANGED convVars

\* main.py:183,194  the outer for loop is exhausted: back to the prompt
PlaybackComplete ==
    /\ pc = "Playing"
    /\ rep >= times_to_repeat
    /\ pc' = "AwaitingInput"
    /\ UNCHANGED <<ascii_width, ascii_height_limit, image_paths, i,
                   all_ascii_frames, line, user_input, times_to_repeat, rep,
                   frame_pos, nrenders, last_rendered, last_log>>
    /\ UNCHANGED convVars

Next ==
    \/ Extract \/ CallConvert \/ ReturnConvert \/ BuildDone
    \/ ConvOpen \/ ConvFit \/ ConvClamp \/ ConvResize \/ ConvQuantize
    \/ ReadInput \/ InputFails \/ RenderFrame \/ RenderFails \/ Interrupt
    \/ PlaybackComplete

Spec == Init /\ [][Next]_vars

\* ------------------------------------------------- claims on the converter
\* The call got through the fit loop and the clamp (it did not return None).
PastClamp == cpc \in {"resize", "quantize"} \/ (cpc = "done" /\ conv_result # "None")

\* C1: for a positive requested width and a positive height limit (and a
\* source of positive size), the height chosen after the fit loop and the
\* clamp is at least 1 and at most the height limit.
C1_HeightInRange ==
    (PastClamp /\ ascii_width > 0 /\ terminal_max_height > 0)
        => (1 <= new_height /\ new_height <= terminal_max_height)

\* C1 witness: a frame was returned after the loop narrowed the width until
\* the height fitted the limit exactly.
C1_Witness ==
    /\ conv_result = "art"
    /\ ascii_width > 0 /\ terminal_max_height > 0
    /\ target_width < ascii_width
    /\ new_height = terminal_max_height
    /\ Len(ascii_art) = new_height

\* idx is floor(p / 255 * (n - 1))
IsFloorIndex(idx, p, n) == idx * 255 <= p * (n - 1) /\ p * (n - 1) < (idx + 1) * 255

C7_RectangularGrid ==
    conv_result = "art" =>
        /\ Len(ascii_art) >= 1
        /\ \A r \in DOMAIN ascii_art : Len(ascii_art[r]) = target_width
        /\ target_width >= 1

\* C7 witness: a returned frame of several rows and several columns whose
\* width the fit loop had to narrow.
C7_Witness ==
    /\ conv_result = "art"
    /\ Len(ascii_art) >= 2
    /\ target_width >= 2
    /\ target_width < ascii_width
    /\ \A r \in DOMAIN ascii_art : Len(ascii_art[r]) = target_width

\* C10: the fit loop always comes to an end, whatever the requested width and
\* the height limit (zero and negative ones included), and when it has ended
\* the candidate height floor(ar * target_width * 0.5) is at most the limit.
C10_FitLoopTerminates ==
    /\ (cpc = "fit") ~> (cpc = "resize")
    /\ [](cpc = "resize" =>
            (original_height * target_width) \div (2 * original_width)
                <= terminal_max_height)

\* C10 witness: the loop has ended under a negative height limit, having
\* driven the width below zero.
C10_Witness ==
    /\ cpc = "resize"
    /\ terminal_max_height < 0
    /\ ascii_width > 0
    /\ target_width < 0

\* ---------------------------------------------- claims on build and playback
\* The positions of the frames whose file converts, in temporal order
GoodFrames == {k \in DOMAIN image_paths : image_paths[k].kind = "ok"}
BuildOver == pc \in {"AwaitingInput", "Playing", "Stopped"}
    \/ (pc = "Exited" /\ image_paths # <<>>)

\* C3: in a terminal that leaves a positive width and height for the art, no
\* frame's conversion failure leaves the build step; a failing frame is
\* skipped, the others are cached in their temporal order (so one failing
\* frame of F leaves F-1), and the cache is empty only if every frame failed.
C3_BuildSkipsFailures ==
    (ascii_width > 0 /\ ascii_height_limit > 0) =>
        /\ pc # "Escaped"
        /\ BuildOver =>
              /\ Len(all_ascii_frames) = Cardinality(GoodFrames)
              /\ \A k \in DOMAIN all_ascii_frames : all_ascii_frames[k] \in GoodFrames
              /\ \A j, k \in DOMAIN all_ascii_frames :
                    j < k => all_ascii_frames[j] < all_ascii_frames[k]
              /\ (all_ascii_frames = <<>> => GoodFrames = {})

HasDigit(l) == \E k \in DOMAIN l : l[k] \in Digits
\* Where the first run of digits of l starts and ends
FirstRunStart(l) == CHOOSE a \in DOMAIN l :
    l[a] \in Digits /\ \A j \in 1..(a - 1) : l[j] \notin Digits
FirstRunEnd(l) == CHOOSE b \in FirstRunStart(l)..Len(l) :
    /\ \A k \in FirstRunStart(l)..b : l[k] \in Digits
    /\ (b = Len(l) \/ l[b + 1] \notin Digits)
RECURSIVE Pow10(_)
Pow10(e) == IF e = 0 THEN 1 ELSE 10 * Pow10(e - 1)
RECURSIVE PlaceSum(_, _, _)
PlaceSum(l, a, b) ==
    IF a > b THEN 0 ELSE DigitVal(l[a]) * Pow10(b - a) + PlaceSum(l, a + 1, b)
\* The decimal value of the first run of digits of l; 1 without digits
FirstRunValue(l) ==
    IF HasDigit(l) THEN PlaceSum(l, FirstRunStart(l), FirstRunEnd(l)) ELSE 1

\* C4: a playback that runs to its end has made exactly repeatCount * F
\* render calls, repeatCount the value of the first run of digits of the
\* typed line (1 without digits), and the k-th render call of a playback
\* shows cache frame (k-1) mod F: frames 0..F-1 in order within each repeat.
C4_RendersRepeatTimesFrames ==
    /\ [][(pc = "Playing" /\ pc' = "AwaitingInput")
            => nrenders = FirstRunValue(line) * Len(all_ascii_frames)]_vars
    /\ [](nrenders > 0 =>
            last_rendered =
                all_ascii_frames[((nrenders - 1) % Len(all_ascii_frames)) + 1])

\* C4 witness: the line "3" was played to its end over a cache of two frames
C4_Witness ==
    /\ pc = "AwaitingInput"
    /\ line = <<"3">>
    /\ Len(all_ascii_frames) = 2
    /\ nrenders = 6
    /\ last_rendered = all_ascii_frames[2]

\* l is "q" or "Q" with nothing but whitespace around it
QuitLine(l) ==
    \E k \in DOMAIN l :
        l[k] \in {"q", "Q"} /\ \A j \in DOMAIN l \ {k} : l[j] \in Whitespace

\* C5: once a line that is "q" after trimming and ignoring case has been
\* read the controller is Stopped, no render call was made for that line,
\* and none is made afterwards.
C5_QuitStopsWithoutRender ==
    /\ [](QuitLine(line) => (pc = "Stopped" /\ nrenders = 0))
    /\ [][pc = "Stopped" => (pc' = "Stopped" /\ nrenders' = nrenders)]_vars

\* C5 witness: the line " Q" was read and stopped the controller with no
\* render call
C5_Witness ==
    /\ pc = "Stopped"
    /\ line = <<" ", "Q">>
    /\ user_input = <<"q">>
    /\ nrenders = 0
    /\ last_log = "none"

\* C6: an interrupt during Playing, after any frame of any repeat, moves the
\* controller to Stopped without a further render call, and from Stopped it
\* neither renders again nor returns to AwaitingInput.
C6_InterruptStopsPlayback ==
    /\ [][(pc = "Playing" /\ last_log' = "interrupted")
            => (pc' = "Stopped" /\ nrenders' = nrenders)]_vars
    /\ [][last_log = "interrupted"
            => (pc' = "Stopped" /\ nrenders' = nrenders)]_vars

\* C6 witness: the interrupt came in the middle of the second repeat, after
\* frame 1 of 2, and the controller is stopped with the rest unplayed
C6_Witness ==
    /\ pc = "Stopped"
    /\ last_log = "interrupted"
    /\ Len(all_ascii_frames) = 2
    /\ times_to_repeat = 3
    /\ nrenders = 3
    /\ frame_pos = 2

\* C8 as claimed: the controller never enters Playing with a repeat count
\* below 1.
C8_RepeatCountPositive == pc = "Playing" => times_to_repeat >= 1

\* C8 as amended: the repeat count is never negative, it is 1 when the line
\* has no digit, and it is 0 exactly when the first run of digits of the line
\* is made of zeros only.
C8_RepeatCountNonNegative ==
    pc = "Playing" =>
        /\ times_to_repeat >= 0
        /\ (~HasDigit(line) => times_to_repeat = 1)
        /\ (times_to_repeat = 0 <=>
              (HasDigit(line) /\
               \A k \in FirstRunStart(line)..FirstRunEnd(line) : line[k] = "0"))

\* C8 witness: the line "0" put the controller in Playing with a count of 0
C8_Witness ==
    /\ pc = "Playing"
    /\ line = <<"0">>
    /\ times_to_repeat = 0
    /\ nrenders = 0

\* C9: a failure raised by a render step during Playing is logged and moves
\* the controller to Stopped; it does not leave main, and afterwards the
\* controller neither renders again nor returns to AwaitingInput.
C9_RenderFailureStops ==
    /\ [][(pc = "Playing" /\ last_log' = "error")
            => (pc' = "Stopped" /\ nrenders' = nrenders)]_vars
    /\ [][last_log = "error" => (pc' = "Stopped" /\ nrenders' = nrenders)]_vars
    /\ [](last_log = "error" => pc # "Escaped")

\* C9 witness: the second render call of a playback failed; the controller is
\* stopped with one frame rendered
C9_Witness ==
    /\ pc = "Stopped"
    /\ last_log = "error"
    /\ line # <<>>
    /\ nrenders = 1
    /\ frame_pos = 2

====
